---- MODULE Spec2Model ----
(***************************************************************************)
(* State-machine model of the ESP-Drone autonomous navigation engine       *)
(* (autonav.c) and of the clock and sensors it reads.                      *)
(*                                                                         *)
(* Time is the value of esp_timer_get_time(), in microseconds.  The clock   *)
(* of the model stays far below 2^32 ms and 2^64 us, so the uint64_t and   *)
(* uint32_t time arithmetic of the code never wraps and is plain integer   *)
(* arithmetic here; uint16_t and uint8_t values keep their width.          *)
(*                                                                         *)
(* The C floats (altitude filter, PID terms, velocities) are carried as    *)
(* fixed-point integers in hundredths: a float f is the integer 100*f,     *)
(* products and quotients truncate toward zero.  Velocities are therefore  *)
(* in cm/s and the filter state in hundredths of a millimetre.             *)
(***************************************************************************)
EXTENDS Integers, Naturals, Sequences, FiniteSets, TLC

\* ---- autonav.h: autonav_state_t ----
AUTONAV_IDLE == 0
AUTONAV_RUNNING == 1
AUTONAV_HOLD_OBSTACLE == 2
AUTONAV_LANDING == 3
AUTONAV_LANDED == 4
AUTONAV_OVERRIDE == 5

\* ---- autonav.c: CONFIG ----
AUTONAV_DEFAULT_ALT_MM == 1200
SAFETY_TIMEOUT_MS == 30000
OBSTACLE_THR_MM == 800
OBSTACLE_MAX_WAIT_MS == 30000
HOVER_THRUST_BASE == 30000
SEGMENT_TIME_MS == 3000
\* SHAPE_SPEED is 0.2f m/s: 20 hundredths
SHAPE_SPEED == 20
\* LOOP_DT_S 0.01f, Z_KP 1.0f, Z_KI 0.04f, Z_KD 0.08f, in hundredths
LOOP_DT_S == 1
Z_KP == 100
Z_KI == 4
Z_KD == 8

\* ---- autonav_crtp.h ----
AUTONAV_CRTP_PORT == 13
AUTONAV_CRTP_CH == 0
AUTONAV_CMD_STOP == 0
AUTONAV_CMD_SQUARE == 1
AUTONAV_CMD_RECT == 2
AUTONAV_CMD_OVAL == 3
AUTONAV_CMD_TRI == 4
AUTONAV_CMD_SET_ALT_MM == 5
AUTONAV_CMD_OVERRIDE_ON == 10
AUTONAV_CMD_OVERRIDE_OFF == 11

\* ---- bounds of the model ----
\* the clock is advanced at most this many steps past boot
MaxAdvance == 3
\* valid down-sensor samples delivered after each autonavInit
MaxDownSamples == 1
\* seconds the keep-alive harness runs
MaxKeepAliveS == 20
\* 10 s steps of the clock in the obstacle harness
MaxCycleSteps == 9
\* clock steps while the two tasks are interleaved
MaxRaceAdvance == 2
\* valid down-sensor samples the altitude controller is fed after autonavInit
MaxThrustSamples == 4

VARIABLES
  now,            \* esp_timer_get_time(), microseconds
  s_state,        \* autonav_state_t
  s_targetAltMm,  \* uint16_t
  s_shapeId,      \* uint8_t
  s_lastCmdUs,    \* heartbeat written by autonavKickSafety()
  s_obstEnterUs,  \* when HOLD_OBSTACLE was entered
  shapeStartUs,   \* when the shape was started
  z_i,            \* integral accumulator, hundredths
  z_prevErr,      \* previous error, hundredths of a mm
  altFilt,        \* filtered altitude, hundredths of a mm
  started,        \* autonav_crtp_start()'s static flag
  sink,           \* what the last step handed to commanderSetSetpoint, if anything
  reply,          \* the status frame the last step sent, if any
  call,           \* the entry point the last step ran, with its inputs
  entryState,     \* s_state when that entry point was entered
  pkt,            \* the packet the last step handed to the handler, if any
  downCount,      \* valid down-sensor samples since autonavInit
  quiet,          \* TRUE once kicks and commands have stopped for good
  upd,            \* the Update task: where it is inside autonavUpdate, its locals
  hnd,            \* the listener task: the statements of the handler still to run
  lastClearUs     \* the clock at the last Update of the obstacle harness that read a clear path

vars == <<now, s_state, s_targetAltMm, s_shapeId, s_lastCmdUs, s_obstEnterUs,
          shapeStartUs, z_i, z_prevErr, altFilt, started, sink, reply, call,
          entryState, pkt, downCount, quiet, upd, hnd, lastClearUs>>

engineVars == <<s_state, s_targetAltMm, s_shapeId, s_lastCmdUs, s_obstEnterUs,
                shapeStartUs, z_i, z_prevErr, altFilt>>

\* the statics of autonav.c as one value: the entry points below are functions
\* from it to what they leave behind
Engine ==
  [s_state |-> s_state, s_targetAltMm |-> s_targetAltMm, s_shapeId |-> s_shapeId,
   s_lastCmdUs |-> s_lastCmdUs, s_obstEnterUs |-> s_obstEnterUs,
   shapeStartUs |-> shapeStartUs, z_i |-> z_i, z_prevErr |-> z_prevErr,
   altFilt |-> altFilt]

Store(e) ==
  /\ s_state' = e.s_state
  /\ s_targetAltMm' = e.s_targetAltMm
  /\ s_shapeId' = e.s_shapeId
  /\ s_lastCmdUs' = e.s_lastCmdUs
  /\ s_obstEnterUs' = e.s_obstEnterUs
  /\ shapeStartUs' = e.shapeStartUs
  /\ z_i' = e.z_i
  /\ z_prevErr' = e.z_prevErr
  /\ altFilt' = e.altFilt

\* ---- integer helpers ----
U16(x) == x % 65536
U8(x) == x % 256
Abs[x \in Int] == IF x < 0 THEN -x ELSE x
Sign[x \in Int] == IF x < 0 THEN -1 ELSE 1

\* C division and float-to-integer conversion truncate toward zero
TruncDiv[a \in Int, b \in Int] == Sign[a] * Sign[b] * (Abs[a] \div Abs[b])

\* a whole number as a float (hundredths)
ToFloat(n) == n * 100
\* float product x*y (the long operand is split so that no step overflows)
FMul[x \in Int, y \in Int] ==
  LET a == IF Abs[x] >= Abs[y] THEN Abs[x] ELSE Abs[y]
      b == IF Abs[x] >= Abs[y] THEN Abs[y] ELSE Abs[x]
  IN Sign[x] * Sign[y] * ((a \div 100) * b + ((a % 100) * b) \div 100)
\* float quotient x/y
FDiv[x \in Int, y \in Int] ==
  Sign[x] * Sign[y] * ((Abs[x] \div Abs[y]) * 100 + ((Abs[x] % Abs[y]) * 100) \div Abs[y])
\* (uint16_t) of a float
ToU16[x \in Int] == U16(TruncDiv[x, 100])

\* sinf(tMs/1000.0f) and cosf(tMs/1000.0f), in hundredths, to within 1 hundredth:
\* the angle is tMs thousandths of a radian, reduced to a half turn, on which
\* sin x = 16 x (pi - x) / (5 pi^2 - 4 x (pi - x)) to within 0.002 (Bhaskara)
HalfTurn[x \in Int] ==
  LET p == x * (3142 - x)
  IN (16 * p) \div ((5 * 3142 * 3142 - 4 * p) \div 100)
sinfMs[tMs \in Int] ==
  LET r == tMs % 6283 IN IF r < 3142 THEN HalfTurn[r] ELSE -HalfTurn[r - 3142]
cosfMs[tMs \in Int] == sinfMs[tMs + 1571]

\* ---- utils ----
nowUs == now
msSince(t0) == (nowUs - t0) \div 1000

\* the tick the harnesses hand to autonavUpdate: the clock in milliseconds
NowMs == now \div 1000

\* ---- outputs ----
\* a CRTP packet: size is the number of payload bytes in data
CRTPPacket(port, channel, bytes) ==
  [port |-> port, channel |-> channel, size |-> Len(bytes), data |-> bytes]

NoPacket == CRTPPacket(0, 0, <<>>)
NoSetpoint == [called |-> FALSE, thrust |-> 0, vx |-> 0, vy |-> 0, tick |-> 0]
NoReply == [sent |-> FALSE, state |-> 0, altMm |-> 0]

\* the Update task outside autonavUpdate: pc is the statement it is at; thrust,
\* blocked and sp are the locals of autonavUpdate; dn and fr are what the
\* sensors read in this call; entry is s_state when the call began, t0 the
\* clock at that moment and timedOut whether the safety timer had expired
\* then; alone says that no statement of the handler has run
\* since; recovering says that the call began after the
\* handler had finished a shape command received in LANDED with the safety
\* timer expired
UpdIdle ==
  [pc |-> "idle", thrust |-> 0, blocked |-> FALSE, sp |-> [thrust |-> 0, vx |-> 0, vy |-> 0],
   case |-> 0, dn |-> <<FALSE, 0>>, fr |-> <<FALSE, 0>>, entry |-> 0, t0 |-> 0,
   timedOut |-> FALSE, alone |-> TRUE, recovering |-> FALSE]

\* the listener task blocked in crtpReceivePacketBlock: prog is the list of
\* statements still to run for the packet pk; entry is s_state when the
\* handler was entered; recover says that pk is a shape command received in
\* LANDED with the safety timer expired and that no Update has begun and
\* finished since the handler returned
HndIdle == [prog |-> <<>>, pk |-> NoPacket, entry |-> 0, recover |-> FALSE]

\* op: the entry point; arg: its argument, or the forward distance an Update
\* read, or the distance the down sensor left for the packet handler; fok, dok:
\* whether the forward and the down reading were valid
Call(name, arg, fok, dok) == [op |-> name, arg |-> arg, fok |-> fok, dok |-> dok]

\* an entry point that hands nothing to the sink and sends no status frame
Silent(name, arg) ==
  /\ sink' = NoSetpoint
  /\ reply' = NoReply
  /\ call' = Call(name, arg, FALSE, FALSE)
  /\ entryState' = s_state
  /\ pkt' = NoPacket
  /\ UNCHANGED <<upd, hnd, lastClearUs>>

\* ---- the clock ----
\* one step is the timeout and half a millisecond: one step after a timestamp
\* msSince is 30000 (the 500 us are truncated), two steps after it 60001
StepsUs == {30000500}
MaxNowUs == MaxAdvance * 30000500

Advance(d) ==
  /\ \/ now + d <= MaxNowUs
     \/ quiet /\ s_state # AUTONAV_OVERRIDE /\ msSince(s_lastCmdUs) <= SAFETY_TIMEOUT_MS
  /\ now' = now + d
  /\ Silent("Advance", 0)
  /\ UNCHANGED <<engineVars, started, downCount, quiet>>

\* ---- autonav.c: entry points, as functions of the statics ----
\* mutant: the engine enforces the 100..3000 mm range of the desktop application
autonavSetTargetAltMm_clamped(e, mm) ==
  [e EXCEPT !.s_targetAltMm = IF U16(mm) < 100 THEN 100
                              ELSE IF U16(mm) > 3000 THEN 3000 ELSE U16(mm)]

autonavSetTargetAltMm(e, mm) == [e EXCEPT !.s_targetAltMm = U16(mm)]

autonavKickSafety(e) == [e EXCEPT !.s_lastCmdUs = nowUs]

autonavEnterOverride(e) == [e EXCEPT !.s_state = AUTONAV_OVERRIDE]

\* mutant: leaving override acts only when the engine is in OVERRIDE
autonavExitOverride_fromOverrideOnly(e) ==
  IF e.s_state = AUTONAV_OVERRIDE
  THEN [e EXCEPT !.s_lastCmdUs = nowUs, !.s_state = AUTONAV_RUNNING]
  ELSE e

autonavExitOverride(e) ==
  [e EXCEPT !.s_lastCmdUs = nowUs, !.s_state = AUTONAV_RUNNING]

\* autonav_crtp_start(): the listener task is created on the first call only
autonav_crtp_start(flag) == TRUE

\* mutant: the altitude controller is not reset
autonavInit_keepsController(e) ==
  [e EXCEPT !.s_state = AUTONAV_IDLE,
            !.s_targetAltMm = AUTONAV_DEFAULT_ALT_MM,
            !.s_shapeId = 0,
            !.s_lastCmdUs = nowUs,
            !.s_obstEnterUs = 0]

autonavInit(e) ==
  [e EXCEPT !.s_state = AUTONAV_IDLE,
            !.s_targetAltMm = AUTONAV_DEFAULT_ALT_MM,
            !.s_shapeId = 0,
            !.s_lastCmdUs = nowUs,
            !.s_obstEnterUs = 0,
            !.z_i = 0,
            !.z_prevErr = 0,
            !.altFilt = ToFloat(AUTONAV_DEFAULT_ALT_MM)]

\* mutant: the safety timer is not kicked
autonavStartShape_noKick(e, shapeId) ==
  [e EXCEPT !.s_shapeId = U8(shapeId),
            !.s_state = AUTONAV_RUNNING,
            !.shapeStartUs = nowUs]

autonavStartShape(e, shapeId) ==
  autonavKickSafety([e EXCEPT !.s_shapeId = U8(shapeId),
                              !.s_state = AUTONAV_RUNNING,
                              !.shapeStartUs = nowUs])

\* mutant: Stop also kicks the safety timer, as the wire command STOP does
autonavStop_kicks(e) ==
  [e EXCEPT !.s_shapeId = 0, !.s_state = AUTONAV_IDLE, !.s_lastCmdUs = nowUs]

autonavStop(e) == [e EXCEPT !.s_shapeId = 0, !.s_state = AUTONAV_IDLE]

\* ---- autonav.c: the update step ----
\* (uint16_t)(HOVER_THRUST_BASE * 0.93f) when the down reading is invalid, else
\* the low-pass filter and the clamped PID; the thrust and the statics it leaves
\* if (x > hi) x = hi; if (x < lo) x = lo;
Clamp[x \in Int, lo \in Int, hi \in Int] == IF x > hi THEN hi ELSE IF x < lo THEN lo ELSE x

\* mutant: the integral accumulator has no anti-windup limit
zHoldThrustCmd_noAntiWindup(e, ok, altMm) ==
  IF ~ok
  THEN [thrust |-> ToU16[FMul[ToFloat(HOVER_THRUST_BASE), 93]], e |-> e]
  ELSE LET filt == FMul[90, e.altFilt] + FMul[10, ToFloat(altMm)]
           err == ToFloat(e.s_targetAltMm) - filt
           zi == e.z_i + FMul[err, LOOP_DT_S]
           z_d == FDiv[err - e.z_prevErr, LOOP_DT_S]
           thrust == Clamp[ToFloat(HOVER_THRUST_BASE)
                             + (FMul[Z_KP, err] + FMul[Z_KI, zi] + FMul[Z_KD, z_d]),
                           ToFloat(20000), ToFloat(65000)]
       IN [thrust |-> ToU16[thrust],
           e |-> [e EXCEPT !.altFilt = filt, !.z_i = zi, !.z_prevErr = err]]

\* mutant: an invalid sample restarts the controller
zHoldThrustCmd_invalidResets(e, ok, altMm) ==
  IF ~ok
  THEN [thrust |-> ToU16[FMul[ToFloat(HOVER_THRUST_BASE), 93]],
        e |-> [e EXCEPT !.z_i = 0, !.z_prevErr = 0]]
  ELSE LET filt == FMul[90, e.altFilt] + FMul[10, ToFloat(altMm)]
           err == ToFloat(e.s_targetAltMm) - filt
           zi == Clamp[e.z_i + FMul[err, LOOP_DT_S], ToFloat(-400), ToFloat(400)]
           z_d == FDiv[err - e.z_prevErr, LOOP_DT_S]
           thrust == Clamp[ToFloat(HOVER_THRUST_BASE)
                             + (FMul[Z_KP, err] + FMul[Z_KI, zi] + FMul[Z_KD, z_d]),
                           ToFloat(20000), ToFloat(65000)]
       IN [thrust |-> ToU16[thrust],
           e |-> [e EXCEPT !.altFilt = filt, !.z_i = zi, !.z_prevErr = err]]

zHoldThrustCmd(e, ok, altMm) ==
  IF ~ok
  THEN [thrust |-> ToU16[FMul[ToFloat(HOVER_THRUST_BASE), 93]], e |-> e]
  ELSE LET filt == FMul[90, e.altFilt] + FMul[10, ToFloat(altMm)]
           err == ToFloat(e.s_targetAltMm) - filt
           zi == Clamp[e.z_i + FMul[err, LOOP_DT_S], ToFloat(-400), ToFloat(400)]
           z_d == FDiv[err - e.z_prevErr, LOOP_DT_S]
           thrust == Clamp[ToFloat(HOVER_THRUST_BASE)
                             + (FMul[Z_KP, err] + FMul[Z_KI, zi] + FMul[Z_KD, z_d]),
                           ToFloat(20000), ToFloat(65000)]
       IN [thrust |-> ToU16[thrust],
           e |-> [e EXCEPT !.altFilt = filt, !.z_i = zi, !.z_prevErr = err]]

\* step 1: the safety timeout forces LANDING
\* mutant: the timeout fires at 30000 ms already
SafetyExpired_atLimit(e) == msSince(e.s_lastCmdUs) >= SAFETY_TIMEOUT_MS

SafetyExpired(e) == msSince(e.s_lastCmdUs) > SAFETY_TIMEOUT_MS

\* mutant: the timeout lands a flying vehicle only
SafetyCheck_flyingOnly(e) ==
  IF SafetyExpired(e) /\ e.s_state = AUTONAV_RUNNING
  THEN AUTONAV_LANDING ELSE e.s_state

\* mutant: the timeout spares a vehicle under manual override
SafetyCheck_sparesOverride(e) ==
  IF SafetyExpired(e) /\ e.s_state # AUTONAV_LANDING /\ e.s_state # AUTONAV_LANDED
     /\ e.s_state # AUTONAV_OVERRIDE
  THEN AUTONAV_LANDING ELSE e.s_state

SafetyCheck(e) ==
  IF SafetyExpired(e) /\ e.s_state # AUTONAV_LANDING /\ e.s_state # AUTONAV_LANDED
  THEN AUTONAV_LANDING ELSE e.s_state

\* step 3: the forward reading
\* mutant: a reading of exactly the threshold counts as blocked
Blocked_atThreshold(frontOk, frontMm) == frontOk /\ frontMm <= OBSTACLE_THR_MM

\* mutant: the validity flag of the reading is ignored
Blocked_ignoresValidity(frontOk, frontMm) == frontMm < OBSTACLE_THR_MM

Blocked(frontOk, frontMm) == frontOk /\ frontMm < OBSTACLE_THR_MM

\* mutant: the obstacle wait ends at 30000 ms already
ObstacleExpired_atLimit(e) == msSince(e.s_obstEnterUs) >= OBSTACLE_MAX_WAIT_MS

ObstacleExpired(e) == msSince(e.s_obstEnterUs) > OBSTACLE_MAX_WAIT_MS

\* mutant: the square is flown the other way round
Square_clockwise(seg) ==
  CASE seg = 0 -> [x |-> SHAPE_SPEED, y |-> 0]
    [] seg = 1 -> [x |-> 0, y |-> -SHAPE_SPEED]
    [] seg = 2 -> [x |-> -SHAPE_SPEED, y |-> 0]
    [] seg = 3 -> [x |-> 0, y |-> SHAPE_SPEED]

\* the horizontal velocity of the shape at tMs since its start
Square(seg) ==
  CASE seg = 0 -> [x |-> SHAPE_SPEED, y |-> 0]
    [] seg = 1 -> [x |-> 0, y |-> SHAPE_SPEED]
    [] seg = 2 -> [x |-> -SHAPE_SPEED, y |-> 0]
    [] seg = 3 -> [x |-> 0, y |-> -SHAPE_SPEED]

Rectangle(seg) ==
  CASE seg = 0 -> [x |-> SHAPE_SPEED, y |-> 0]
    [] seg = 1 -> [x |-> 0, y |-> TruncDiv[SHAPE_SPEED, 2]]
    [] seg = 2 -> [x |-> -SHAPE_SPEED, y |-> 0]
    [] seg = 3 -> [x |-> 0, y |-> TruncDiv[-SHAPE_SPEED, 2]]

Triangle(seg) ==
  CASE seg = 0 -> [x |-> SHAPE_SPEED, y |-> 0]
    [] seg = 1 -> [x |-> TruncDiv[-SHAPE_SPEED, 2], y |-> FMul[SHAPE_SPEED, 87]]
    [] seg = 2 -> [x |-> TruncDiv[-SHAPE_SPEED, 2], y |-> FMul[-SHAPE_SPEED, 87]]

Oval(tMs) ==
  [x |-> FMul[SHAPE_SPEED, cosfMs[tMs]],
   y |-> FMul[TruncDiv[SHAPE_SPEED, 2], sinfMs[tMs]]]

ShapeVelocity(shapeId, tMs) ==
  LET seg == tMs \div SEGMENT_TIME_MS
  IN CASE shapeId = 1 -> Square(seg % 4)
       [] shapeId = 2 -> Rectangle(seg % 4)
       [] shapeId = 3 -> Triangle(seg % 3)
       [] shapeId = 4 -> Oval(tMs)
       [] OTHER -> [x |-> 0, y |-> 0]

Setpoint(thrust, v, tickMs) ==
  [called |-> TRUE, thrust |-> thrust, vx |-> v.x, vy |-> v.y, tick |-> tickMs]
ZeroVelocity == [x |-> 0, y |-> 0]

\* the cases of the switch: the statics each leaves and the setpoint it builds
\* mutant: an idle engine starts flying on its own
OnIdle_takesOff(e, tickMs) ==
  [e |-> [e EXCEPT !.s_state = AUTONAV_RUNNING], sp |-> Setpoint(0, ZeroVelocity, tickMs)]

OnIdle(e, tickMs) == [e |-> e, sp |-> Setpoint(0, ZeroVelocity, tickMs)]

\* mutant: the hold thrust is already sent on the Update that enters the hold
OnRunning_holdThrustOnEntry(e, blocked, thrust, tickMs) ==
  IF blocked
  THEN [e |-> [e EXCEPT !.s_state = AUTONAV_HOLD_OBSTACLE, !.s_obstEnterUs = nowUs],
        sp |-> Setpoint(thrust, ZeroVelocity, tickMs)]
  ELSE [e |-> e,
        sp |-> Setpoint(thrust,
                        ShapeVelocity(e.s_shapeId, msSince(e.shapeStartUs)), tickMs)]

\* mutant: entering the hold does not restart the obstacle wait
OnRunning_keepsEntryTime(e, blocked, thrust, tickMs) ==
  IF blocked
  THEN [e |-> [e EXCEPT !.s_state = AUTONAV_HOLD_OBSTACLE],
        sp |-> Setpoint(0, ZeroVelocity, tickMs)]
  ELSE [e |-> e,
        sp |-> Setpoint(thrust,
                        ShapeVelocity(e.s_shapeId, msSince(e.shapeStartUs)), tickMs)]

OnRunning(e, blocked, thrust, tickMs) ==
  IF blocked
  THEN [e |-> [e EXCEPT !.s_state = AUTONAV_HOLD_OBSTACLE, !.s_obstEnterUs = nowUs],
        sp |-> Setpoint(0, ZeroVelocity, tickMs)]
  ELSE [e |-> e,
        sp |-> Setpoint(thrust,
                        ShapeVelocity(e.s_shapeId, msSince(e.shapeStartUs)), tickMs)]

\* mutant: leaving the hold restarts the shape clock
OnHoldObstacle_resumeRestarts(e, blocked, thrust, tickMs) ==
  [e |-> IF ~blocked THEN [e EXCEPT !.s_state = AUTONAV_RUNNING, !.shapeStartUs = nowUs]
         ELSE IF ObstacleExpired(e) THEN [e EXCEPT !.s_state = AUTONAV_LANDING]
         ELSE e,
   sp |-> Setpoint(thrust, ZeroVelocity, tickMs)]

OnHoldObstacle(e, blocked, thrust, tickMs) ==
  [e |-> IF ~blocked THEN [e EXCEPT !.s_state = AUTONAV_RUNNING]
         ELSE IF ObstacleExpired(e) THEN [e EXCEPT !.s_state = AUTONAV_LANDING]
         ELSE e,
   sp |-> Setpoint(thrust, ZeroVelocity, tickMs)]

\* commandLand zeroes the setpoint and sets LANDING; the case then sets LANDED
OnLanding(e, tickMs) ==
  [e |-> [e EXCEPT !.s_state = AUTONAV_LANDED], sp |-> Setpoint(0, ZeroVelocity, tickMs)]

\* mutant: a landed vehicle goes back to IDLE
OnLanded_toIdle(e, tickMs) ==
  [e |-> [e EXCEPT !.s_state = AUTONAV_IDLE], sp |-> Setpoint(0, ZeroVelocity, tickMs)]

OnLanded(e, tickMs) == [e |-> e, sp |-> Setpoint(0, ZeroVelocity, tickMs)]

\* the switch on e.s_state, which the safety check has already set
SwitchOnState(e, blocked, thrust, tickMs) ==
  CASE e.s_state = AUTONAV_IDLE -> OnIdle(e, tickMs)
    [] e.s_state = AUTONAV_RUNNING -> OnRunning(e, blocked, thrust, tickMs)
    [] e.s_state = AUTONAV_HOLD_OBSTACLE -> OnHoldObstacle(e, blocked, thrust, tickMs)
    [] e.s_state = AUTONAV_LANDING -> OnLanding(e, tickMs)
    [] e.s_state = AUTONAV_LANDED -> OnLanded(e, tickMs)
    [] OTHER -> [e |-> e, sp |-> Setpoint(0, ZeroVelocity, tickMs)]

\* autonavUpdate: the statics it leaves and the setpoint it hands to
\* commanderSetSetpoint (NoSetpoint when it returns without calling it)
autonavUpdate(e, tickMs, downOk, downMm, frontOk, frontMm) ==
  LET e1 == [e EXCEPT !.s_state = SafetyCheck(e)]
      blocked == Blocked(frontOk, frontMm)
      AfterZHold(z) ==
        IF z.e.s_state = AUTONAV_OVERRIDE
        THEN [e |-> autonavKickSafety(z.e), sp |-> NoSetpoint]
        ELSE SwitchOnState(z.e, blocked, z.thrust, tickMs)
  IN CHOOSE r \in {AfterZHold(z) : z \in {zHoldThrustCmd(e1, downOk, downMm)}} : TRUE

\* ---- autonav_crtp.c: the wire-command handler (built with CRTP) ----
u16le(p0, p1) == U16(p0 + p1 * 256)

\* mutant: an unknown command code counts as a sign of life
Dispatch_unknownKicks(e, pk) ==
  LET cmd == pk.data[1]
  IN CASE cmd = AUTONAV_CMD_STOP -> autonavKickSafety(autonavStop(e))
       [] cmd = AUTONAV_CMD_SQUARE -> autonavKickSafety(autonavStartShape(e, 1))
       [] cmd = AUTONAV_CMD_RECT -> autonavKickSafety(autonavStartShape(e, 2))
       [] cmd = AUTONAV_CMD_OVAL -> autonavKickSafety(autonavStartShape(e, 3))
       [] cmd = AUTONAV_CMD_TRI -> autonavKickSafety(autonavStartShape(e, 4))
       [] cmd = AUTONAV_CMD_SET_ALT_MM ->
            IF pk.size >= 3
            THEN autonavKickSafety(
                   autonavSetTargetAltMm(e, u16le(pk.data[2], pk.data[3])))
            ELSE e
       [] cmd = AUTONAV_CMD_OVERRIDE_ON -> autonavKickSafety(autonavEnterOverride(e))
       [] cmd = AUTONAV_CMD_OVERRIDE_OFF -> autonavKickSafety(e)
       [] OTHER -> autonavKickSafety(e)

\* the switch on the command byte
Dispatch(e, pk) ==
  LET cmd == pk.data[1]
  IN CASE cmd = AUTONAV_CMD_STOP -> autonavKickSafety(autonavStop(e))
       [] cmd = AUTONAV_CMD_SQUARE -> autonavKickSafety(autonavStartShape(e, 1))
       [] cmd = AUTONAV_CMD_RECT -> autonavKickSafety(autonavStartShape(e, 2))
       [] cmd = AUTONAV_CMD_OVAL -> autonavKickSafety(autonavStartShape(e, 3))
       [] cmd = AUTONAV_CMD_TRI -> autonavKickSafety(autonavStartShape(e, 4))
       [] cmd = AUTONAV_CMD_SET_ALT_MM ->
            IF pk.size >= 3
            THEN autonavKickSafety(
                   autonavSetTargetAltMm(e, u16le(pk.data[2], pk.data[3])))
            ELSE e
       [] cmd = AUTONAV_CMD_OVERRIDE_ON -> autonavKickSafety(autonavEnterOverride(e))
       [] cmd = AUTONAV_CMD_OVERRIDE_OFF -> autonavKickSafety(e)
       [] OTHER -> e

\* mutant: the channel of the packet is not checked
autonav_handle_packet_anyChannel(e, pk, altMm) ==
  IF pk.port # AUTONAV_CRTP_PORT \/ pk.size < 1
  THEN [e |-> e, reply |-> NoReply]
  ELSE LET e1 == Dispatch(e, pk)
       IN [e |-> e1, reply |-> [sent |-> TRUE, state |-> U8(e1.s_state), altMm |-> altMm]]

\* autonav_handle_packet: the statics it leaves and the status frame it sends;
\* altMm is what sensorsGetDownTofMm left in the handler's alt, which starts 0
autonav_handle_packet(e, pk, altMm) ==
  IF pk.port # AUTONAV_CRTP_PORT \/ pk.channel # AUTONAV_CRTP_CH \/ pk.size < 1
  THEN [e |-> e, reply |-> NoReply]
  ELSE LET e1 == Dispatch(e, pk)
       IN [e |-> e1, reply |-> [sent |-> TRUE, state |-> U8(e1.s_state), altMm |-> altMm]]

\* ---- the environment: what the sensors report and what the callers pass ----
\* a reading is <<valid, millimetres>>
DownReadings == {<<FALSE, 0>>, <<TRUE, 1000>>}
FrontReadings == {<<FALSE, 500>>, <<TRUE, 500>>, <<TRUE, 800>>}
ShapeIds == {0, 1, 4}
Altitudes == {1500}
Packets ==
  {CRTPPacket(13, 0, <<AUTONAV_CMD_STOP>>),
   CRTPPacket(13, 0, <<AUTONAV_CMD_SQUARE>>),
   CRTPPacket(13, 0, <<AUTONAV_CMD_SET_ALT_MM, 220, 5>>),
   CRTPPacket(13, 0, <<AUTONAV_CMD_OVERRIDE_ON>>),
   CRTPPacket(13, 0, <<AUTONAV_CMD_OVERRIDE_OFF>>),
   CRTPPacket(13, 0, <<9>>),
   CRTPPacket(12, 0, <<AUTONAV_CMD_SQUARE>>)}

Init ==
  /\ now = 0
  /\ s_state = AUTONAV_IDLE
  /\ s_targetAltMm = AUTONAV_DEFAULT_ALT_MM
  /\ s_shapeId = 0
  /\ s_lastCmdUs = 0
  /\ s_obstEnterUs = 0
  /\ shapeStartUs = 0
  /\ z_i = 0
  /\ z_prevErr = 0
  /\ altFilt = ToFloat(AUTONAV_DEFAULT_ALT_MM)
  /\ started = FALSE
  /\ sink = NoSetpoint
  /\ reply = NoReply
  /\ call = Call("boot", 0, FALSE, FALSE)
  /\ entryState = AUTONAV_IDLE
  /\ pkt = NoPacket
  /\ downCount = 0
  /\ quiet = FALSE
  /\ upd = UpdIdle
  /\ hnd = HndIdle
  /\ lastClearUs = 0

\* ---- one action per entry point ----
Tick == \E d \in StepsUs : Advance(d)

\* a call of autonavUpdate(tickMs) while the sensors read dn and fr
UpdateCall(tickMs, dn, fr) ==
  \E e \in {Engine} : \E r \in {autonavUpdate(e, tickMs, dn[1], dn[2], fr[1], fr[2])} :
     /\ downCount' = IF dn[1] THEN downCount + 1 ELSE downCount
     /\ Store(r.e)
     /\ sink' = r.sp
     /\ reply' = NoReply
     /\ call' = Call("Update", fr[2], fr[1], dn[1])
     /\ entryState' = s_state
     /\ pkt' = NoPacket
     /\ UNCHANGED <<now, started, quiet, upd, hnd>>

UpdateAt(tickMs, dn, fr) == UpdateCall(tickMs, dn, fr) /\ UNCHANGED lastClearUs

UpdateStep(dn, fr) == UpdateAt(NowMs, dn, fr)

DoUpdate(dn, fr) ==
  /\ dn[1] => downCount < MaxDownSamples
  /\ UpdateStep(dn, fr)

Update == \E dn \in DownReadings, fr \in FrontReadings : DoUpdate(dn, fr)

Initialize ==
  /\ started' = autonav_crtp_start(started)
  /\ Store(autonavInit(Engine))
  /\ downCount' = 0
  /\ Silent("Init", 0)
  /\ UNCHANGED <<now, quiet>>

StartShape ==
  \E id \in ShapeIds :
    /\ Store(autonavStartShape(Engine, id))
    /\ Silent("StartShape", id)
    /\ UNCHANGED <<now, started, downCount, quiet>>

Stop ==
  /\ Store(autonavStop(Engine))
  /\ Silent("Stop", 0)
  /\ UNCHANGED <<now, started, downCount, quiet>>

KickSafety ==
  /\ Store(autonavKickSafety(Engine))
  /\ Silent("KickSafety", 0)
  /\ UNCHANGED <<now, started, downCount, quiet>>

SetTargetAltMm ==
  \E mm \in Altitudes :
    /\ Store(autonavSetTargetAltMm(Engine, mm))
    /\ Silent("SetTargetAltMm", mm)
    /\ UNCHANGED <<now, started, downCount, quiet>>

EnterOverride ==
  /\ Store(autonavEnterOverride(Engine))
  /\ Silent("EnterOverride", 0)
  /\ UNCHANGED <<now, started, downCount, quiet>>

ExitOverride ==
  /\ Store(autonavExitOverride(Engine))
  /\ Silent("ExitOverride", 0)
  /\ UNCHANGED <<now, started, downCount, quiet>>

\* the listener task hands a received packet to the handler; it exists once
\* autonavInit has started it
DoHandlePacket(pk, dn) ==
  \E r \in {autonav_handle_packet(Engine, pk, dn[2])} :
     /\ started
     /\ Store(r.e)
     /\ reply' = r.reply
     /\ sink' = NoSetpoint
     /\ call' = Call("Packet", dn[2], FALSE, dn[1])
     /\ entryState' = s_state
     /\ pkt' = pk
     /\ UNCHANGED <<now, started, downCount, quiet, upd, hnd, lastClearUs>>

HandlePacket == \E pk \in Packets, dn \in DownReadings : DoHandlePacket(pk, dn)

Next ==
  \/ Tick
  \/ Update
  \/ Initialize
  \/ StartShape
  \/ Stop
  \/ KickSafety
  \/ SetTargetAltMm
  \/ EnterOverride
  \/ ExitOverride
  \/ HandlePacket

Spec == Init /\ [][Next]_vars

\* ---- the keep-alive harness (autonav_test_task with clear sensors) ----
\* autonavInit, autonavStartShape(1), autonavKickSafety, then for 20 s a loop
\* of Update calls in which the clock never gets more than 1000 ms past the
\* last kick and the forward sensor always reads clear
KeepAliveStepsUs == {500000, 1000000}
ClearReadings == {fr \in FrontReadings : ~fr[1] \/ fr[2] >= 800}
InLoop == call.op # "boot" /\ call.op # "Init"

HarnessInit == call.op = "boot" /\ Initialize

HarnessStart ==
  /\ call.op = "Init"
  /\ Store(autonavStartShape(Engine, 1))
  /\ Silent("StartShape", 1)
  /\ UNCHANGED <<now, started, downCount, quiet>>

HarnessKick == InLoop /\ KickSafety

HarnessDelay ==
  \E d \in KeepAliveStepsUs :
    /\ InLoop
    /\ now + d <= MaxKeepAliveS * 1000000
    /\ (now + d) - s_lastCmdUs <= 1000000
    /\ Advance(d)

HarnessUpdate ==
  \E dn \in DownReadings, fr \in ClearReadings : InLoop /\ DoUpdate(dn, fr)

NextKeepAlive ==
  \/ HarnessInit
  \/ HarnessStart
  \/ HarnessKick
  \/ HarnessDelay
  \/ HarnessUpdate

SpecKeepAlive == Init /\ [][NextKeepAlive]_vars

\* ---- kicks and commands stop for good ----
\* until GoQuiet every entry point may run; after it only the clock and the
\* periodic Update do, and both keep running
GoQuiet ==
  /\ ~quiet
  /\ quiet' = TRUE
  /\ UNCHANGED <<now, engineVars, started, sink, reply, call, entryState, pkt,
                  downCount, upd, hnd, lastClearUs>>

NextFault ==
  \/ ~quiet /\ Next
  \/ GoQuiet
  \/ quiet /\ Tick
  \/ quiet /\ Update

SpecFault ==
  /\ Init
  /\ [][NextFault]_vars
  /\ WF_vars(quiet /\ Tick)
  /\ WF_vars(quiet /\ Update)

\* ---- the wire path alone: every command arrives as a CRTP packet ----
\* the packets the desktop application and a faulty sender produce: every
\* command code, SET_ALTITUDE_MM with 2, 1 and 0 payload bytes, two unknown
\* codes, a wrong port, a wrong channel and an empty packet
WirePackets ==
  {CRTPPacket(AUTONAV_CRTP_PORT, AUTONAV_CRTP_CH, <<c>>) :
     c \in {AUTONAV_CMD_STOP, AUTONAV_CMD_SQUARE, AUTONAV_CMD_RECT, AUTONAV_CMD_OVAL,
            AUTONAV_CMD_TRI, AUTONAV_CMD_SET_ALT_MM, AUTONAV_CMD_OVERRIDE_ON,
            AUTONAV_CMD_OVERRIDE_OFF, 9, 255}}
  \cup {CRTPPacket(AUTONAV_CRTP_PORT, AUTONAV_CRTP_CH, <<AUTONAV_CMD_SET_ALT_MM, 176, 4>>),
        CRTPPacket(AUTONAV_CRTP_PORT, AUTONAV_CRTP_CH, <<AUTONAV_CMD_SET_ALT_MM, 7>>),
        CRTPPacket(12, AUTONAV_CRTP_CH, <<AUTONAV_CMD_SQUARE>>),
        CRTPPacket(AUTONAV_CRTP_PORT, 1, <<AUTONAV_CMD_OVERRIDE_ON>>),
        CRTPPacket(AUTONAV_CRTP_PORT, AUTONAV_CRTP_CH, <<>>)}

\* the down sensor as the handler sees it: a driver may leave a distance in
\* *out_mm although it reports the reading invalid
WireDownReadings == {<<FALSE, 0>>, <<FALSE, 1200>>, <<TRUE, 1000>>}

WirePacket == \E pk \in WirePackets, dn \in WireDownReadings : DoHandlePacket(pk, dn)

NextWire ==
  \/ Initialize
  \/ Tick
  \/ Update
  \/ WirePacket

SpecWire == Init /\ [][NextWire]_vars

\* ---- SET_ALTITUDE_MM with every 16-bit altitude ----
\* after autonavInit the listener receives one SET_ALTITUDE_MM packet whose two
\* payload bytes are the little-endian encoding of v
Uint16 == 0 .. 65535
AltPacketOf(v) ==
  CRTPPacket(AUTONAV_CRTP_PORT, AUTONAV_CRTP_CH, <<AUTONAV_CMD_SET_ALT_MM, v % 256, v \div 256>>)

AltInit == call.op = "boot" /\ Initialize

AltPacket ==
  /\ call.op = "Init"
  /\ \E v \in Uint16, dn \in DownReadings : DoHandlePacket(AltPacketOf(v), dn)

NextAlt ==
  \/ AltInit
  \/ AltPacket

SpecAlt == Init /\ [][NextAlt]_vars

\* ---- the altitude controller under extreme readings and targets ----
\* the engine is initialised, told altitudes from one end of uint16_t to the
\* other, started, and updated with down readings over the same range
ThrustReadings == {<<FALSE, 0>>, <<TRUE, 0>>, <<TRUE, 1200>>, <<TRUE, 65535>>}
ThrustAltitudes == {0, 65535}
ThrustFront == {<<TRUE, 500>>, <<TRUE, 2000>>}

ThrustInit == Initialize

ThrustStart ==
  /\ Store(autonavStartShape(Engine, 1))
  /\ Silent("StartShape", 1)
  /\ UNCHANGED <<now, started, downCount, quiet>>

ThrustSetAlt ==
  \E mm \in ThrustAltitudes :
    /\ Store(autonavSetTargetAltMm(Engine, mm))
    /\ Silent("SetTargetAltMm", mm)
    /\ UNCHANGED <<now, started, downCount, quiet>>

ThrustUpdate ==
  \E dn \in ThrustReadings, fr \in ThrustFront :
    /\ dn[1] => downCount < MaxThrustSamples
    /\ UpdateStep(dn, fr)

NextThrust ==
  \/ ThrustInit
  \/ ThrustStart
  \/ ThrustSetAlt
  \/ ThrustUpdate

SpecThrust == Init /\ [][NextThrust]_vars

\* ---- the safety-timeout simulator (main of the host program) ----
\* autonavInit, autonavStartShape(1), then for t = 0, 100, ..., 69900:
\* autonavUpdate(t); autonavKickSafety() while t < 20000; usleep(10000).
\* The engine reads the clock, which only the sleeps advance; t is the tick
\* it is handed. The down stub always reads 1200 mm, so downCount is the
\* number of Update calls made.
SimEndTick == 70000
SimStepTick == 100
SimKickUntil == 20000
\* usleep(10000): the clock is 10 ms further when it returns
SimSleepUs == {10000}

\* the loop variable t at the next Update, and at the Update just made
SimTick == SimStepTick * downCount
SimLastTick == SimStepTick * (downCount - 1)

SimDown == <<TRUE, 1200>>
\* the forward stub counts its calls: 2000 mm for the first 49, then 500 mm
SimFront(counter) == IF counter < 50 THEN <<TRUE, 2000>> ELSE <<TRUE, 500>>

SimInit == call.op = "boot" /\ Initialize

SimStart ==
  /\ call.op = "Init"
  /\ Store(autonavStartShape(Engine, 1))
  /\ Silent("StartShape", 1)
  /\ UNCHANGED <<now, started, downCount, quiet>>

SimUpdate ==
  /\ call.op \in {"StartShape", "Advance"}
  /\ SimTick < SimEndTick
  /\ UpdateAt(SimTick, SimDown, SimFront(downCount + 1))

SimKick ==
  /\ call.op = "Update"
  /\ SimLastTick < SimKickUntil
  /\ KickSafety

SimSleep ==
  /\ \/ call.op = "KickSafety"
     \/ call.op = "Update" /\ SimLastTick >= SimKickUntil
  /\ \E d \in SimSleepUs : Advance(d)

NextSim ==
  \/ SimInit
  \/ SimStart
  \/ SimUpdate
  \/ SimKick
  \/ SimSleep

SpecSim == Init /\ [][NextSim]_vars

\* main has left its loop
SimEnded == call.op = "Advance" /\ SimTick >= SimEndTick

\* ---- the two tasks, statement by statement ----
\* autonavUpdate runs in the periodic task and autonav_handle_packet in the
\* listener task that autonav_crtp_start creates; the statics are shared
\* without a lock, so the statements of the two interleave. A step below is
\* one statement that reads or writes a static; statements that touch only
\* locals are folded into the step before them.
RaceDown == {<<TRUE, 1200>>}
RaceFront == {<<TRUE, 500>>, <<TRUE, 2000>>}
RacePackets ==
  {CRTPPacket(13, 0, <<AUTONAV_CMD_SQUARE>>),
   CRTPPacket(13, 0, <<AUTONAV_CMD_OVERRIDE_ON>>)}

\* what no statement inside a call changes
TaskFrame == UNCHANGED <<now, started, downCount, quiet, lastClearUs>>
Inside == UNCHANGED <<sink, reply, call, entryState, pkt>>

\* the statements autonav_handle_packet runs for a packet that passes its
\* checks, the bodies of autonavStop and autonavStartShape spelled out
Program(pk) ==
  LET cmd == pk.data[1]
      kick == [op |-> "kick", arg |-> 0]
      send == [op |-> "reply", arg |-> 0]
      StartShapeBody(id) ==
        <<[op |-> "shapeId", arg |-> id], [op |-> "state", arg |-> AUTONAV_RUNNING],
          [op |-> "shapeStart", arg |-> 0], kick>>
  IN CASE cmd = AUTONAV_CMD_STOP ->
            <<[op |-> "shapeId", arg |-> 0], [op |-> "state", arg |-> AUTONAV_IDLE],
              kick, send>>
       [] cmd = AUTONAV_CMD_SQUARE -> StartShapeBody(1) \o <<kick, send>>
       [] cmd = AUTONAV_CMD_RECT -> StartShapeBody(2) \o <<kick, send>>
       [] cmd = AUTONAV_CMD_OVAL -> StartShapeBody(3) \o <<kick, send>>
       [] cmd = AUTONAV_CMD_TRI -> StartShapeBody(4) \o <<kick, send>>
       [] cmd = AUTONAV_CMD_SET_ALT_MM ->
            IF pk.size >= 3
            THEN <<[op |-> "alt", arg |-> u16le(pk.data[2], pk.data[3])], kick, send>>
            ELSE <<send>>
       [] cmd = AUTONAV_CMD_OVERRIDE_ON ->
            <<[op |-> "state", arg |-> AUTONAV_OVERRIDE], kick, send>>
       [] cmd = AUTONAV_CMD_OVERRIDE_OFF -> <<kick, send>>
       [] OTHER -> <<send>>

\* one statement of the handler applied to the statics
Exec(e, st) ==
  CASE st.op = "shapeId" -> [e EXCEPT !.s_shapeId = st.arg]
    [] st.op = "state" -> [e EXCEPT !.s_state = st.arg]
    [] st.op = "shapeStart" -> [e EXCEPT !.shapeStartUs = nowUs]
    [] st.op = "alt" -> autonavSetTargetAltMm(e, st.arg)
    [] st.op = "kick" -> autonavKickSafety(e)
    [] OTHER -> e

\* crtpReceivePacketBlock returns a packet and the handler's checks pass
HandlerReceive ==
  \E pk \in RacePackets :
    /\ started
    /\ hnd.prog = <<>>
    /\ pk.port = AUTONAV_CRTP_PORT /\ pk.channel = AUTONAV_CRTP_CH /\ pk.size >= 1
    /\ hnd' = [prog |-> Program(pk), pk |-> pk, entry |-> s_state,
               recover |-> /\ pk.data[1] \in 1 .. 4
                           /\ s_state = AUTONAV_LANDED
                           /\ SafetyExpired(Engine)]
    /\ upd' = [upd EXCEPT !.alone = (upd.pc = "idle")]
    /\ UNCHANGED engineVars
    /\ Inside /\ TaskFrame

\* the next statement of the handler's switch
HandlerStep ==
  /\ hnd.prog # <<>>
  /\ Head(hnd.prog).op # "reply"
  /\ Store(Exec(Engine, Head(hnd.prog)))
  /\ hnd' = [hnd EXCEPT !.prog = Tail(hnd.prog)]
  /\ upd' = [upd EXCEPT !.alone = (upd.pc = "idle")]
  /\ Inside /\ TaskFrame

\* the status frame at the end of the handler
HandlerReply ==
  \E dn \in RaceDown :
    /\ hnd.prog # <<>>
    /\ Head(hnd.prog).op = "reply"
    /\ reply' = [sent |-> TRUE, state |-> U8(s_state), altMm |-> dn[2]]
    /\ sink' = NoSetpoint
    /\ call' = Call("Packet", dn[2], FALSE, dn[1])
    /\ entryState' = hnd.entry
    /\ pkt' = hnd.pk
    /\ hnd' = [HndIdle EXCEPT !.recover = hnd.recover]
    /\ upd' = [upd EXCEPT !.alone = (upd.pc = "idle")]
    /\ UNCHANGED engineVars
    /\ TaskFrame

\* autonavUpdate is called: the condition of the safety check
UpdateBegin ==
  /\ upd.pc = "idle"
  /\ upd' = [UpdIdle EXCEPT
               !.pc = IF /\ SafetyExpired(Engine)
                         /\ s_state # AUTONAV_LANDING /\ s_state # AUTONAV_LANDED
                      THEN "land" ELSE "sense",
               !.entry = s_state, !.t0 = now, !.timedOut = SafetyExpired(Engine),
               !.recovering = (hnd.prog = <<>> /\ hnd.recover)]
  /\ UNCHANGED <<engineVars, hnd>>
  /\ Inside /\ TaskFrame

\* s_state = AUTONAV_LANDING of the safety check
UpdateSafetyLand ==
  /\ upd.pc = "land"
  /\ Store([Engine EXCEPT !.s_state = AUTONAV_LANDING])
  /\ upd' = [upd EXCEPT !.pc = "sense"]
  /\ UNCHANGED hnd
  /\ Inside /\ TaskFrame

\* zHoldThrustCmd and the forward reading
UpdateSense ==
  \E dn \in RaceDown, fr \in RaceFront :
    \E z \in {zHoldThrustCmd(Engine, dn[1], dn[2])} :
      /\ upd.pc = "sense"
      /\ Store(z.e)
      /\ upd' = [upd EXCEPT !.pc = "override", !.thrust = z.thrust,
                            !.blocked = Blocked(fr[1], fr[2]), !.dn = dn, !.fr = fr]
      /\ UNCHANGED hnd
      /\ Inside /\ TaskFrame

\* if (s_state == AUTONAV_OVERRIDE)
UpdateOverrideCheck ==
  /\ upd.pc = "override"
  /\ upd' = [upd EXCEPT !.pc = IF s_state = AUTONAV_OVERRIDE THEN "kick" ELSE "switch"]
  /\ UNCHANGED <<engineVars, hnd>>
  /\ Inside /\ TaskFrame

\* what a call that is over leaves in the history: no new recovery is pending
\* once an Update that began after the handler's return is over
UpdateOver(sp) ==
  /\ sink' = sp
  /\ reply' = NoReply
  /\ call' = Call("Update", upd.fr[2], upd.fr[1], upd.dn[1])
  /\ entryState' = upd.entry
  /\ pkt' = NoPacket
  /\ upd' = UpdIdle
  /\ hnd' = IF upd.recovering /\ hnd.prog = <<>>
            THEN [hnd EXCEPT !.recover = FALSE] ELSE hnd
  /\ TaskFrame

\* autonavKickSafety(); return; of the override branch
UpdateOverrideKick ==
  /\ upd.pc = "kick"
  /\ Store(autonavKickSafety(Engine))
  /\ UpdateOver(NoSetpoint)

\* switch (s_state)
UpdateSwitch ==
  /\ upd.pc = "switch"
  /\ upd' = [upd EXCEPT !.pc = "case", !.case = s_state]
  /\ UNCHANGED <<engineVars, hnd>>
  /\ Inside /\ TaskFrame

\* the first statement of the selected case that writes a static, with the
\* writes to sp around it
UpdateCase ==
  /\ upd.pc = "case"
  /\ \/ /\ upd.case \in {AUTONAV_IDLE, AUTONAV_LANDED, AUTONAV_OVERRIDE}
        /\ UNCHANGED engineVars
        /\ upd' = [upd EXCEPT !.pc = "send"]
     \/ /\ upd.case = AUTONAV_RUNNING /\ upd.blocked
        /\ Store([Engine EXCEPT !.s_state = AUTONAV_HOLD_OBSTACLE])
        /\ upd' = [upd EXCEPT !.pc = "second"]
     \/ /\ upd.case = AUTONAV_RUNNING /\ ~upd.blocked
        /\ UNCHANGED engineVars
        /\ \E v \in {ShapeVelocity(s_shapeId, msSince(shapeStartUs))} :
             upd' = [upd EXCEPT !.pc = "send",
                                !.sp = [thrust |-> upd.thrust, vx |-> v.x, vy |-> v.y]]
     \/ /\ upd.case = AUTONAV_HOLD_OBSTACLE
        /\ Store(IF ~upd.blocked THEN [Engine EXCEPT !.s_state = AUTONAV_RUNNING]
                 ELSE IF ObstacleExpired(Engine)
                      THEN [Engine EXCEPT !.s_state = AUTONAV_LANDING]
                      ELSE Engine)
        /\ upd' = [upd EXCEPT !.pc = "send", !.sp = [thrust |-> upd.thrust, vx |-> 0, vy |-> 0]]
     \/ /\ upd.case = AUTONAV_LANDING
        /\ Store([Engine EXCEPT !.s_state = AUTONAV_LANDING])
        /\ upd' = [upd EXCEPT !.pc = "second"]
  /\ UNCHANGED hnd
  /\ Inside /\ TaskFrame

\* the second write of a case: s_obstEnterUs = nowUs() after the hold is
\* entered, s_state = AUTONAV_LANDED after commandLand
UpdateCaseSecond ==
  /\ upd.pc = "second"
  /\ Store(IF upd.case = AUTONAV_RUNNING
           THEN [Engine EXCEPT !.s_obstEnterUs = nowUs]
           ELSE [Engine EXCEPT !.s_state = AUTONAV_LANDED])
  /\ upd' = [upd EXCEPT !.pc = "send"]
  /\ UNCHANGED hnd
  /\ Inside /\ TaskFrame

\* commanderSetSetpoint(&sp, tickMs)
UpdateSend ==
  /\ upd.pc = "send"
  /\ UNCHANGED engineVars
  /\ UpdateOver(Setpoint(upd.sp.thrust, [x |-> upd.sp.vx, y |-> upd.sp.vy],
                         upd.t0 \div 1000))

RaceInit == call.op = "boot" /\ Initialize
\* a clock step is 30 s: no call is in progress for that long
RaceTick ==
  /\ call.op # "boot" /\ upd.pc = "idle" /\ hnd.prog = <<>>
  /\ \A d \in StepsUs : now + d <= MaxRaceAdvance * d
  /\ Tick

NextRace ==
  \/ RaceInit
  \/ RaceTick
  \/ HandlerReceive
  \/ HandlerStep
  \/ HandlerReply
  \/ UpdateBegin
  \/ UpdateSafetyLand
  \/ UpdateSense
  \/ UpdateOverrideCheck
  \/ UpdateOverrideKick
  \/ UpdateSwitch
  \/ UpdateCase
  \/ UpdateCaseSecond
  \/ UpdateSend

SpecRace == Init /\ [][NextRace]_vars

\* ---- the obstacle harness ----
\* autonavInit, autonavStartShape(1), then Update calls, kicks and delays in
\* any order such that the safety timer never gets older than 30000 ms and
\* that no 30000 ms pass without an Update that reads a clear forward path
\* (an invalid reading or 800 mm and more); the down sensor is invalid
\* throughout, so the hold thrust is the fallback
CycleStepsUs == {10000000, 30000000}

CycleInit == call.op = "boot" /\ Initialize

CycleStart ==
  /\ call.op = "Init"
  /\ Store(autonavStartShape(Engine, 1))
  /\ sink' = NoSetpoint
  /\ reply' = NoReply
  /\ call' = Call("StartShape", 1, FALSE, FALSE)
  /\ entryState' = s_state
  /\ pkt' = NoPacket
  /\ lastClearUs' = now
  /\ UNCHANGED <<now, started, downCount, quiet, upd, hnd>>

CycleKick == InLoop /\ KickSafety

CycleDelay ==
  \E d \in CycleStepsUs :
    /\ InLoop
    /\ now + d <= MaxCycleSteps * 10000000
    /\ (now + d) - s_lastCmdUs <= SAFETY_TIMEOUT_MS * 1000
    /\ (now + d) - lastClearUs <= OBSTACLE_MAX_WAIT_MS * 1000
    /\ Advance(d)

CycleUpdate ==
  \E fr \in FrontReadings :
    /\ InLoop
    /\ UpdateCall(NowMs, <<FALSE, 0>>, fr)
    /\ lastClearUs' = IF Blocked(fr[1], fr[2]) THEN lastClearUs ELSE now

NextCycle ==
  \/ CycleInit
  \/ CycleStart
  \/ CycleKick
  \/ CycleDelay
  \/ CycleUpdate

SpecCycle == Init /\ [][NextCycle]_vars

\* ---- vocabulary of the properties ----
\* the last step was an Update entered in state st
Updated(st) == call.op = "Update" /\ entryState = st
\* the forward reading of that Update, in the words of the specification
ReadBlocked == call.fok /\ call.arg < 800
ReadClear == ~call.fok \/ call.arg >= 800
\* whole milliseconds since the last kick and since HOLD_OBSTACLE was entered
SinceKickMs == (now - s_lastCmdUs) \div 1000
SinceHoldMs == (now - s_obstEnterUs) \div 1000
SinkGotZero ==
  sink.called /\ sink.thrust = 0 /\ sink.vx = 0 /\ sink.vy = 0

\* ---- C1 (as stated) ----
\* C1: the first Update called more than 30000 ms after the last kick, with
\* valid sensor input and a clear forward path, returns with state = LANDING.
C1_ReportsLanding ==
  (Updated(AUTONAV_RUNNING) /\ call.dok /\ ReadClear /\ SinceKickMs > 30000)
    => s_state = AUTONAV_LANDING

\* C1 (amended): an Update entered in RUNNING with a clear forward path leaves
\* RUNNING while at most 30000 ms have passed since the last kick; the first
\* Update called after more than 30000 ms goes through LANDING inside the call,
\* returns with state = LANDED and hands the sink a zero setpoint; an Update
\* entered in LANDED returns LANDED.
C1_SafetyTimeout ==
  /\ (Updated(AUTONAV_RUNNING) /\ ReadClear /\ SinceKickMs <= 30000)
       => s_state = AUTONAV_RUNNING
  /\ (Updated(AUTONAV_RUNNING) /\ ReadClear /\ SinceKickMs > 30000)
       => (s_state = AUTONAV_LANDED /\ SinkGotZero)
  /\ Updated(AUTONAV_LANDED) => s_state = AUTONAV_LANDED

C1_Witness ==
  /\ Updated(AUTONAV_RUNNING) /\ call.dok /\ ReadClear
  /\ SinceKickMs > 30000
  /\ s_state = AUTONAV_LANDED

\* ---- C3 ----
\* C3: with the safety timer not expired, an Update in RUNNING that reads a
\* valid forward distance below 800 mm returns with HOLD_OBSTACLE, and an Update
\* in HOLD_OBSTACLE that reads a forward distance of 800 mm or more returns with
\* RUNNING.
C3_HoldAndResume ==
  /\ (Updated(AUTONAV_RUNNING) /\ SinceKickMs <= 30000 /\ ReadBlocked)
       => s_state = AUTONAV_HOLD_OBSTACLE
  /\ (Updated(AUTONAV_HOLD_OBSTACLE) /\ SinceKickMs <= 30000
        /\ call.fok /\ call.arg >= 800)
       => s_state = AUTONAV_RUNNING

C3_Witness ==
  /\ Updated(AUTONAV_HOLD_OBSTACLE) /\ SinceKickMs <= 30000
  /\ call.fok /\ call.arg = 800
  /\ s_state = AUTONAV_RUNNING

\* ---- C4 ----
\* C4: with the safety timer kept fresh and the forward sensor blocked, an
\* Update in HOLD_OBSTACLE stays there while at most 30000 ms have passed since
\* HOLD_OBSTACLE was entered; the first one after more than 30000 ms returns
\* with LANDING and a setpoint that still carries the hold thrust; the Update
\* after it returns with LANDED and a zero setpoint.
C4_ObstacleTimeout ==
  /\ (Updated(AUTONAV_HOLD_OBSTACLE) /\ SinceKickMs <= 30000 /\ ReadBlocked
        /\ SinceHoldMs <= 30000)
       => s_state = AUTONAV_HOLD_OBSTACLE
  /\ (Updated(AUTONAV_HOLD_OBSTACLE) /\ SinceKickMs <= 30000 /\ ReadBlocked
        /\ SinceHoldMs > 30000)
       => /\ s_state = AUTONAV_LANDING
          /\ sink.called /\ sink.thrust >= 20000 /\ sink.vx = 0 /\ sink.vy = 0
  /\ Updated(AUTONAV_LANDING) => (s_state = AUTONAV_LANDED /\ SinkGotZero)

C4_Witness ==
  /\ Updated(AUTONAV_HOLD_OBSTACLE) /\ SinceKickMs <= 30000 /\ ReadBlocked
  /\ SinceHoldMs > 30000
  /\ s_state = AUTONAV_LANDING /\ sink.thrust >= 20000

\* ---- C7 ----
\* C7: an Update entered in LANDED, whatever the readings and the elapsed time,
\* leaves the state LANDED and hands the sink a setpoint with thrust 0 and zero
\* horizontal velocity.
C7_LandedTerminal ==
  Updated(AUTONAV_LANDED) => (s_state = AUTONAV_LANDED /\ SinkGotZero)

C7_Witness ==
  /\ Updated(AUTONAV_LANDED) /\ s_state = AUTONAV_LANDED /\ SinkGotZero
  /\ SinceKickMs > 30000 /\ ReadBlocked /\ call.dok

\* ---- C5 ----
\* C5: every Update entered in OVERRIDE hands no setpoint to the sink, leaves
\* the state OVERRIDE and refreshes the safety timer.
C5_EveryUpdateSuppressed ==
  Updated(AUTONAV_OVERRIDE)
    => (s_state = AUTONAV_OVERRIDE /\ ~sink.called /\ s_lastCmdUs = now)

\* ---- C8 ----
\* C8: Initialize, called in any state, leaves state = IDLE, target altitude
\* 1200 mm, shape selector 0, safety timer = now, integral and previous error 0
\* and filtered altitude 1200.
C8_InitResets ==
  call.op = "Init"
    => /\ s_state = AUTONAV_IDLE
       /\ s_targetAltMm = 1200
       /\ s_shapeId = 0
       /\ s_lastCmdUs = now
       /\ z_i = 0 /\ z_prevErr = 0
       /\ altFilt = 1200 * 100

C8_Witness ==
  /\ call.op = "Init" /\ entryState = AUTONAV_HOLD_OBSTACLE
  /\ s_state = AUTONAV_IDLE /\ altFilt = 1200 * 100 /\ now > 0

\* ---- C9 ----
\* C9: Start shape, called in any state with any selector, sets the active
\* shape to the selector, the state to RUNNING and the shape start timestamp
\* and the safety timer to now; the Update that follows it with a clear forward
\* path leaves the state RUNNING.
C9_StartShapeRestarts ==
  [][/\ call'.op = "StartShape"
          => /\ s_shapeId' = call'.arg
             /\ s_state' = AUTONAV_RUNNING
             /\ shapeStartUs' = now'
             /\ s_lastCmdUs' = now'
     /\ (call.op = "StartShape" /\ call'.op = "Update"
           /\ (~call'.fok \/ call'.arg >= 800))
          => s_state' = AUTONAV_RUNNING]_vars

C9_Witness ==
  /\ call.op = "StartShape" /\ entryState = AUTONAV_LANDED
  /\ s_state = AUTONAV_RUNNING /\ s_lastCmdUs = now /\ now > 30000000

\* ---- C10 ----
\* C10: Stop, called in any state, sets state = IDLE and the active shape to
\* none and changes nothing else; it hands no setpoint to the sink.
C10_StopFrame ==
  [][call'.op = "Stop"
       => /\ s_state' = AUTONAV_IDLE
          /\ s_shapeId' = 0
          /\ UNCHANGED <<s_targetAltMm, s_lastCmdUs, s_obstEnterUs, shapeStartUs,
                         z_i, z_prevErr, altFilt>>
          /\ ~sink'.called]_vars

C10_Witness ==
  /\ call.op = "Stop" /\ entryState = AUTONAV_HOLD_OBSTACLE
  /\ s_state = AUTONAV_IDLE /\ s_shapeId = 0
  /\ s_targetAltMm # 1200 /\ s_lastCmdUs < now /\ z_i # 0

\* ---- C2 ----
\* C2: in the keep-alive harness (Initialize, Start shape SQUARE, a kick at
\* least every 1000 ms, every forward reading clear) the state is RUNNING after
\* every Update and is never HOLD_OBSTACLE, LANDING or LANDED.
C2_KeepAlive ==
  /\ call.op = "Update" => s_state = AUTONAV_RUNNING
  /\ s_state # AUTONAV_HOLD_OBSTACLE
  /\ s_state # AUTONAV_LANDING
  /\ s_state # AUTONAV_LANDED

\* the Update at the end of the 20 s, a full second after the last kick
C2_Witness ==
  /\ Updated(AUTONAV_RUNNING) /\ s_state = AUTONAV_RUNNING
  /\ now = 20000000 /\ SinceKickMs = 1000
  /\ sink.called /\ sink.thrust > 0

\* ---- C6 ----
\* C6: once kicks and commands have stopped for good while the clock advances
\* and Update keeps being called, the engine, unless it is in OVERRIDE,
\* eventually reaches LANDED and stays LANDED forever.
C6_FaultConvergence ==
  [](quiet /\ s_state # AUTONAV_OVERRIDE => <>[](s_state = AUTONAV_LANDED))

\* an idle engine landed by the timeout after the kicks stopped
C6_Witness ==
  /\ quiet /\ Updated(AUTONAV_IDLE) /\ s_state = AUTONAV_LANDED
  /\ SinceKickMs > 30000

\* ---- C11 ----
\* C11: Exit override, called in any state, sets state = RUNNING and the safety
\* timer to now and leaves the active shape selector and the shape start
\* timestamp unchanged.
C11_ExitOverride ==
  [][call'.op = "ExitOverride"
       => /\ s_state' = AUTONAV_RUNNING
          /\ s_lastCmdUs' = now'
          /\ UNCHANGED <<s_shapeId, shapeStartUs>>]_vars

\* Exit override on a landed engine that was never in OVERRIDE
C11_Witness ==
  /\ call.op = "ExitOverride" /\ entryState = AUTONAV_LANDED
  /\ s_state = AUTONAV_RUNNING /\ s_lastCmdUs = now /\ now > 60000000
  /\ shapeStartUs < now

\* ---- C12 ----
\* C12: a step that handles an OVERRIDE_OFF, OVERRIDE_ON or SET_ALTITUDE_MM
\* packet, or an Update, entered in OVERRIDE leaves the state OVERRIDE: over
\* any sequence of such steps the state never leaves OVERRIDE once entered.
C12_OverrideNeverCleared ==
  (/\ entryState = AUTONAV_OVERRIDE
   /\ \/ call.op = "Update"
      \/ /\ call.op = "Packet" /\ pkt.size >= 1
         /\ pkt.data[1] \in {AUTONAV_CMD_OVERRIDE_OFF, AUTONAV_CMD_OVERRIDE_ON,
                             AUTONAV_CMD_SET_ALT_MM})
    => s_state = AUTONAV_OVERRIDE

\* ---- C13 ----
\* C13: the selector values the trajectory dispatch switches on are the
\* ShapeSelector values the wire commands store: an Update that stays RUNNING
\* with selector 3 (wire command OVAL) hands the sink the oval velocity at the
\* elapsed shape time, and with selector 4 (wire command TRIANGLE) the
\* velocity of the triangle segment.
ShapeTimeMs == (now - shapeStartUs) \div 1000

C13_ShapeNumbering ==
  (Updated(AUTONAV_RUNNING) /\ s_state = AUTONAV_RUNNING /\ sink.called)
    => /\ s_shapeId = 3
            => (sink.vx = Oval(ShapeTimeMs).x /\ sink.vy = Oval(ShapeTimeMs).y)
       /\ s_shapeId = 4
            => /\ sink.vx = Triangle((ShapeTimeMs \div 3000) % 3).x
               /\ sink.vy = Triangle((ShapeTimeMs \div 3000) % 3).y

\* ---- C14 ----
\* C14: an Update that stays RUNNING with shape SQUARE hands the sink, at
\* elapsed shape time t, the velocity (+0.2, 0), (0, +0.2), (-0.2, 0) or
\* (0, -0.2) m/s according to which quarter of the 12000 ms period t falls in:
\* the velocity repeats every 12000 ms and changes every 3000 ms.
C14_SquarePeriod ==
  (Updated(AUTONAV_RUNNING) /\ s_state = AUTONAV_RUNNING /\ s_shapeId = 1)
    => LET q == (ShapeTimeMs % 12000) \div 3000
       IN /\ sink.called
          /\ q = 0 => (sink.vx = 20 /\ sink.vy = 0)
          /\ q = 1 => (sink.vx = 0 /\ sink.vy = 20)
          /\ q = 2 => (sink.vx = -20 /\ sink.vy = 0)
          /\ q = 3 => (sink.vx = 0 /\ sink.vy = -20)

\* the second edge of the second lap: 15000 ms into the shape
C14_Witness ==
  /\ Updated(AUTONAV_RUNNING) /\ s_state = AUTONAV_RUNNING /\ s_shapeId = 1
  /\ ShapeTimeMs = 15000
  /\ sink.called /\ sink.vx = 0 /\ sink.vy = 20

\* ---- C15 ----
\* C15: a SET_ALTITUDE_MM packet on port 0x0D channel 0 whose payload bytes are
\* b0 = v mod 256 and b1 = v div 256 leaves the target altitude at exactly
\* v = b0 + 256 * b1, for every 16-bit v: no bounds are applied.
C15_AltRoundTrip ==
  (/\ call.op = "Packet"
   /\ pkt.port = 13 /\ pkt.channel = 0 /\ pkt.size = 3 /\ pkt.data[1] = 5)
    => s_targetAltMm = pkt.data[2] + 256 * pkt.data[3]

\* the largest altitude, far above the 3000 mm the desktop application allows
C15_Witness ==
  /\ call.op = "Packet" /\ pkt.data = <<5, 255, 255>>
  /\ s_targetAltMm = 65535

\* ---- C16 ----
\* C16: handling a packet whose port is not 0x0D, whose channel is not 0 or
\* whose length is 0 changes none of the engine's statics and sends no status
\* frame.
C16_MalformedDropped ==
  [][(call'.op = "Packet" /\ (pkt'.port # 13 \/ pkt'.channel # 0 \/ pkt'.size = 0))
       => (UNCHANGED engineVars /\ ~reply'.sent)]_vars

\* an OVERRIDE_ON on the wrong channel reaches a flying engine and is dropped
C16_Witness ==
  /\ call.op = "Packet" /\ pkt.port = 13 /\ pkt.channel = 1 /\ pkt.data = <<10>>
  /\ s_state = AUTONAV_RUNNING /\ ~reply.sent /\ s_lastCmdUs < now

C18_StatusReply ==
  (call.op = "Packet" /\ pkt.port = 13 /\ pkt.channel = 0 /\ pkt.size >= 1)
    => /\ reply.sent
       /\ reply.state = s_state
       /\ reply.altMm = IF call.dok THEN call.arg ELSE 0

\* ---- C19 ----
\* C19: whatever the down readings and the target altitude, the integral
\* accumulator stays in [-400, 400], the hold thrust an Update computes in any
\* reachable state lies in [20000, 65000], and every setpoint handed to the
\* sink has thrust 0 or a thrust in [20000, 65000].
C19_ThrustBounds ==
  /\ -400 * 100 <= z_i /\ z_i <= 400 * 100
  /\ \A dn \in ThrustReadings :
       LET t == zHoldThrustCmd(Engine, dn[1], dn[2]).thrust
       IN 20000 <= t /\ t <= 65000
  /\ sink.called => (sink.thrust = 0 \/ (20000 <= sink.thrust /\ sink.thrust <= 65000))

\* target 65535 mm and a reading of 0 mm: the integral and the thrust are both
\* at their upper limits
C19_Witness ==
  /\ Updated(AUTONAV_RUNNING) /\ call.dok /\ s_targetAltMm = 65535
  /\ z_i = 400 * 100 /\ sink.called /\ sink.thrust = 65000

\* C20: when the safety-timeout simulator has made its last Update (tick
\* 69900) and left its loop, the engine has been forced to land: its state is
\* LANDING or LANDED.
C20_SimulatorLands ==
  SimEnded => s_state \in {AUTONAV_LANDING, AUTONAV_LANDED}

\* ---- C21 ----
\* C21: the Update that moves the state from RUNNING to HOLD_OBSTACLE sets the
\* obstacle-entry timestamp to now and hands the sink the all-zero setpoint;
\* an Update entered in HOLD_OBSTACLE with the safety timer not expired hands
\* the sink the hold thrust of that call with zero horizontal velocity.
C21_HoldEntry ==
  [][call'.op = "Update"
       => /\ (s_state = AUTONAV_RUNNING /\ s_state' = AUTONAV_HOLD_OBSTACLE)
               => /\ s_obstEnterUs' = now'
                  /\ sink'.called
                  /\ sink'.thrust = 0 /\ sink'.vx = 0 /\ sink'.vy = 0
          /\ (s_state = AUTONAV_HOLD_OBSTACLE /\ ~SafetyExpired(Engine))
               => /\ sink'.called
                  /\ sink'.vx = 0 /\ sink'.vy = 0
                  /\ sink'.thrust >= 20000
                  /\ \E dn \in DownReadings :
                       /\ dn[1] = call'.dok
                       /\ sink'.thrust = zHoldThrustCmd(Engine, dn[1], dn[2]).thrust]_vars

\* a flying engine with a valid altitude sample stopped by an obstacle
C21_Witness ==
  /\ Updated(AUTONAV_RUNNING) /\ s_state = AUTONAV_HOLD_OBSTACLE
  /\ call.dok /\ ReadBlocked
  /\ s_obstEnterUs = now /\ now > 0
  /\ SinkGotZero

\* ---- C22 ----
\* C22: an Update that reads an invalid forward distance does exactly what it
\* would do on a valid reading of 800 mm, whatever distance accompanies the
\* invalid reading; with the safety timer not expired, such an Update entered
\* in RUNNING stays RUNNING and hands the sink the shape velocity, and entered
\* in HOLD_OBSTACLE (so after a valid reading below 800 mm) returns to RUNNING.
C22_InvalidFrontIsClear ==
  [][(call'.op = "Update" /\ ~call'.fok)
       => /\ \E dn \in DownReadings :
               /\ dn[1] = call'.dok
               /\ \E r \in {autonavUpdate(Engine, NowMs, dn[1], dn[2], TRUE, 800)} :
                    Engine' = r.e /\ sink' = r.sp
          /\ (s_state = AUTONAV_RUNNING /\ ~SafetyExpired(Engine))
               => /\ s_state' = AUTONAV_RUNNING
                  /\ sink'.called
                  /\ sink'.vx = ShapeVelocity(s_shapeId, msSince(shapeStartUs)).x
                  /\ sink'.vy = ShapeVelocity(s_shapeId, msSince(shapeStartUs)).y
          /\ (s_state = AUTONAV_HOLD_OBSTACLE /\ ~SafetyExpired(Engine))
               => s_state' = AUTONAV_RUNNING]_vars

\* a hold left on an invalid reading that carries a distance below 800 mm
C22_Witness ==
  /\ Updated(AUTONAV_HOLD_OBSTACLE) /\ s_state = AUTONAV_RUNNING
  /\ ~call.fok /\ call.arg < 800
  /\ SinceKickMs <= 30000

\* ---- C23 ----
\* C23: in an Update whose down-sensor reading is invalid the hold thrust is
\* 27900 whatever the controller state and the distance left by the sensor,
\* it is the thrust of every setpoint of that Update that carries a thrust,
\* and filtered altitude, integral and previous error are the same after the
\* Update as before it.
C23_InvalidDownFallback ==
  [][(call'.op = "Update" /\ ~call'.dok)
       => /\ \A mm \in {0, 1200, 65535} :
               zHoldThrustCmd(Engine, FALSE, mm).thrust = 27900
          /\ UNCHANGED <<altFilt, z_i, z_prevErr>>
          /\ (sink'.called /\ sink'.thrust # 0) => sink'.thrust = 27900
          /\ (s_state \in {AUTONAV_RUNNING, AUTONAV_HOLD_OBSTACLE}
                /\ s_state' \in {AUTONAV_RUNNING, AUTONAV_LANDING}
                /\ ~SafetyExpired(Engine))
               => (sink'.called /\ sink'.thrust = 27900)]_vars

\* an invalid sample reaching a controller that earlier samples have moved
C23_Witness ==
  /\ Updated(AUTONAV_RUNNING) /\ s_state = AUTONAV_RUNNING /\ ~call.dok
  /\ sink.called /\ sink.thrust = 27900
  /\ z_i # 0 /\ z_prevErr # 0 /\ altFilt # 1200 * 100

\* ---- C24 ----
\* C24: in the simulator run the forward stub reads 2000 mm on each of the
\* first 50 Update calls, so the engine, started in RUNNING, is RUNNING after
\* each of them; the 51st Update is entered in RUNNING, reads 500 mm and
\* returns with HOLD_OBSTACLE.
C24_StubCount ==
  /\ (call.op = "Update" /\ downCount <= 50)
       => (call.fok /\ call.arg = 2000 /\ s_state = AUTONAV_RUNNING)
  /\ (call.op = "Update" /\ downCount = 51)
       => (entryState = AUTONAV_RUNNING /\ call.arg = 500
             /\ s_state = AUTONAV_HOLD_OBSTACLE)

\* ---- C25 ----
\* C25: with the safety timer not expired, neither when the call began nor
\* now, a statement of the Update task that runs while the state is OVERRIDE
\* leaves the state OVERRIDE and hands no setpoint to the sink, also when the
\* call it belongs to began before the handler's Enter override.
C25_OverrideRace ==
  [][(/\ upd.pc # "idle" /\ upd'.pc # upd.pc
      /\ s_state = AUTONAV_OVERRIDE
      /\ ~upd.timedOut /\ ~SafetyExpired(Engine))
       => /\ s_state' = AUTONAV_OVERRIDE
          /\ upd'.pc = "idle" => ~sink'.called]_vars

\* ---- C26 ----
\* C26: after the handler has finished a shape command that it received in
\* LANDED with the safety timer older than 30000 ms, the next Update that runs
\* from beginning to end with no statement of the handler in between, with
\* the timer not expired and a clear forward path, returns with RUNNING,
\* however the statements of the handler were interleaved with an earlier
\* Update.
C26_ShapeRecovers ==
  [][(/\ upd.pc = "send" /\ upd'.pc = "idle"
      /\ upd.recovering /\ upd.alone /\ hnd.prog = <<>> /\ hnd.recover
      /\ ~upd.timedOut /\ ~upd.blocked)
       => s_state' = AUTONAV_RUNNING]_vars

C28_ShapeClock ==
  [][/\ shapeStartUs' # shapeStartUs
          => \/ call'.op = "StartShape"
             \/ /\ call'.op = "Packet"
                /\ pkt'.port = 13 /\ pkt'.channel = 0 /\ pkt'.size >= 1
                /\ pkt'.data[1] \in 1 .. 4
     /\ (call'.op = "Update" /\ s_state = AUTONAV_RUNNING /\ s_state' = AUTONAV_RUNNING)
          => /\ sink'.called
             /\ sink'.vx = ShapeVelocity(s_shapeId, (now - shapeStartUs) \div 1000).x
             /\ sink'.vy = ShapeVelocity(s_shapeId, (now - shapeStartUs) \div 1000).y]_vars

\* a square started at 0, held from 30 s on, resumed, and flown at 90 s with
\* the third edge of the square
C28_Witness ==
  /\ Updated(AUTONAV_RUNNING) /\ s_state = AUTONAV_RUNNING /\ s_shapeId = 1
  /\ s_obstEnterUs > shapeStartUs
  /\ ShapeTimeMs = 90001
  /\ sink.called /\ sink.vx = -20 /\ sink.vy = 0

\* ---- C29 ----
\* C29: in the obstacle harness (kicks maintained, never 30000 ms without an
\* Update that reads a clear path) every entry into HOLD_OBSTACLE sets the
\* obstacle-entry timestamp to now, the wait of an Update in HOLD_OBSTACLE is
\* at most 30000 ms, and the state is never LANDING or LANDED.
C29_CyclesNeverLand ==
  /\ s_state # AUTONAV_LANDING /\ s_state # AUTONAV_LANDED
  /\ (Updated(AUTONAV_RUNNING) /\ s_state = AUTONAV_HOLD_OBSTACLE)
       => s_obstEnterUs = now
  /\ Updated(AUTONAV_HOLD_OBSTACLE) => SinceHoldMs <= 30000

\* a hold entered again after 60 s or more, waited in for the full 30000 ms
C29_Witness ==
  /\ Updated(AUTONAV_HOLD_OBSTACLE) /\ s_state = AUTONAV_HOLD_OBSTACLE
  /\ ReadBlocked /\ SinceHoldMs = 30000
  /\ s_obstEnterUs >= 60000000

\* ---- C30 ----
\* C30: an Update entered with the safety timer expired in IDLE, RUNNING,
\* HOLD_OBSTACLE or OVERRIDE returns with LANDED; otherwise the state after
\* the Update is the state before it, or the change is RUNNING ->
\* HOLD_OBSTACLE, HOLD_OBSTACLE -> RUNNING, HOLD_OBSTACLE -> LANDING or
\* LANDING -> LANDED. No Update turns another state into IDLE or OVERRIDE and
\* none leaves LANDED.
C30_UpdateTransitions ==
  [][call'.op = "Update"
       => /\ IF SafetyExpired(Engine)
                /\ s_state \in {AUTONAV_IDLE, AUTONAV_RUNNING, AUTONAV_HOLD_OBSTACLE,
                                AUTONAV_OVERRIDE}
             THEN s_state' = AUTONAV_LANDED
             ELSE \/ s_state' = s_state /\ s_state # AUTONAV_LANDING
                  \/ s_state = AUTONAV_RUNNING /\ s_state' = AUTONAV_HOLD_OBSTACLE
                  \/ s_state = AUTONAV_HOLD_OBSTACLE /\ s_state' = AUTONAV_RUNNING
                  \/ s_state = AUTONAV_HOLD_OBSTACLE /\ s_state' = AUTONAV_LANDING
                  \/ s_state = AUTONAV_LANDING /\ s_state' = AUTONAV_LANDED
          /\ s_state' \in {AUTONAV_IDLE, AUTONAV_OVERRIDE} => s_state = s_state'
          /\ s_state = AUTONAV_LANDED => s_state' = AUTONAV_LANDED]_vars

\* a hold that reads a clear path after the safety timer has run out
C30_Witness ==
  /\ Updated(AUTONAV_HOLD_OBSTACLE) /\ s_state = AUTONAV_LANDED
  /\ ReadClear /\ SinceKickMs > 30000

====
